---------------------------- MODULE Spec2Model ----------------------------
(***************************************************************************)
(* Model of the external-stats endpoints of Devlink: the GitHub and the    *)
(* LeetCode routers (GET /stats/:username and the authenticated            *)
(* GET /stats), as found in                                                *)
(* src/client/src/components/dashboard/GithubStats.js, lines 246-795.      *)
(*                                                                         *)
(* JavaScript values are tagged pairs <<tag, payload>>, so that values of  *)
(* different JavaScript types can be compared.  Strings are sequences of   *)
(* chunks; a username is spelled one character per chunk, because the code *)
(* reads its characters (charCodeAt, charAt, split).  The clock counts     *)
(* whole days.                                                             *)
(***************************************************************************)
EXTENDS Integers, Sequences, FiniteSets, TLC

VARIABLES
    reqs,      \* request id -> the state of the handler serving it
    now,       \* the wall clock read by Date.now() / new Date(), in days
    fnIn,      \* input of a normalisation applied on its own
    fnOut      \* its result

vars == <<reqs, now, fnIn, fnOut>>

----------------------------------------------------------------------------
(* Bounds of the model *)

MaxTime == 1          \* the clock runs over 0..MaxTime
MaxRepos == 6         \* longest repository list normalised on its own
MaxStars == 2         \* star counts range over 0..MaxStars
MaxTier == 2          \* longest tag tier normalised on its own
MaxTagSolved == 1     \* problemsSolved ranges over 0..MaxTagSolved
MaxSubs == 2          \* longest acSubmissionNum list normalised on its own
MaxCount == 2         \* submission counts range over 0..MaxCount
MaxName == 9          \* longest username a mock record is built for on its own

----------------------------------------------------------------------------
(* JavaScript values *)

Undefined == <<"undefined", <<>>>>
Null == <<"null", <<>>>>
NaN == <<"nan", <<>>>>
Num(n) == <<"num", n>>
Str(s) == <<"str", s>>
Bool(b) == <<"bool", b>>
Arr(a) == <<"arr", a>>
Obj(f) == <<"obj", f>>
Date(t) == <<"date", t>>       \* new Date(t).toISOString()

IsNullish(v) == v[1] \in {"undefined", "null"}
IsArr(v) == v[1] = "arr"
IsObj(v) == v[1] = "obj"

\* o.k: undefined when o has no property k (o null or undefined throws: see
\* the Throws predicates of the callers).
Get(o, k) == IF IsObj(o) /\ k \in DOMAIN o[2] THEN o[2][k] ELSE Undefined

\* o?.k
OptGet(o, k) == IF IsNullish(o) THEN Undefined ELSE Get(o, k)

\* Whether a value is falsy, as the operands of || are tested.
Falsy(v) ==
    \/ v[1] \in {"undefined", "null", "nan"}
    \/ v[1] = "num" /\ v[2] = 0
    \/ v[1] = "str" /\ v[2] = <<>>
    \/ v[1] = "bool" /\ v[2] = FALSE

\* a || b
OrElse(a, b) == IF Falsy(a) THEN b ELSE a

Keys(o) == DOMAIN o[2]

\* The property names JSON.stringify writes for an object: a property whose
\* value is undefined is left out.
JsonKeys(o) == {k \in DOMAIN o[2] : o[2][k] # Undefined}

\* What JSON.stringify and the client's JSON.parse make of a value that is
\* neither an object nor an array: NaN becomes null.
JsonLeaf(v) == IF v = NaN THEN Null ELSE v

\* JSON.stringify followed by the client's JSON.parse: undefined properties
\* are dropped, undefined and NaN array elements and NaN values become null.
RECURSIVE ToJson(_)
ToJson(v) ==
    LET json[w \in {v}] ==
            LET inner(x) == IF IsObj(x) \/ IsArr(x) THEN ToJson(x) ELSE JsonLeaf(x)
            IN CASE IsObj(w) -> Obj([k \in JsonKeys(w) |-> inner(w[2][k])])
                 [] IsArr(w) -> Arr([i \in 1..Len(w[2]) |->
                                       IF w[2][i] = Undefined THEN Null
                                       ELSE inner(w[2][i])])
                 [] OTHER -> JsonLeaf(w)
    IN json[v]

----------------------------------------------------------------------------
(* Sequences *)

RECURSIVE SumFrom(_)
SumFrom(s) == IF s = <<>> THEN 0 ELSE Head(s) + SumFrom(Tail(s))

\* The sum of a sequence of numbers.
SumSeq(s) ==
    LET sum[w \in {s}] == SumFrom(w)
    IN sum[s]

Take(s, n) == SubSeq(s, 1, IF Len(s) < n THEN Len(s) ELSE n)

Min(a, b) == IF a < b THEN a ELSE b

\* Array.prototype.sort with the comparator (a, b) => key(b) - key(a): a
\* stable sort by key, descending.  InsertDesc puts x behind every element
\* whose key is at least x's.
RECURSIVE InsertDesc(_, _, _)
InsertDesc(x, kx, sorted) ==
    IF sorted = <<>> THEN <<x>>
    ELSE IF Head(sorted)[1] >= kx
         THEN <<Head(sorted)>> \o InsertDesc(x, kx, Tail(sorted))
         ELSE <<x>> \o sorted

RECURSIVE SortPairsDesc(_, _)
SortPairsDesc(pairs, acc) ==
    IF pairs = <<>> THEN acc
    ELSE SortPairsDesc(Tail(pairs), InsertDesc(Head(pairs), Head(pairs)[1], acc))

\* s sorted by the numeric property k of its elements, descending, stable.
SortDescBy(s, k) ==
    LET pairs == [i \in 1..Len(s) |-> <<Get(s[i], k)[2], s[i]>>]
        sorted == SortPairsDesc(pairs, <<>>)
    IN [i \in 1..Len(s) |-> sorted[i][2]]

----------------------------------------------------------------------------
(* Strings and usernames *)

\* charCodeAt(0) of the characters usernames are spelled with.
CharCode(c) ==
    CASE c = "a" -> 97
      [] c = "d" -> 100
      [] c = "z" -> 122
      [] c = "/" -> 47
      [] OTHER -> 120

\* toUpperCase() of one character.
ToUpperCase(c) ==
    CASE c = "a" -> "A"
      [] c = "d" -> "D"
      [] c = "z" -> "Z"
      [] OTHER -> c

\* The usernames requests are made for: character-code sums 97 and 976.
Usernames ==
    { <<"a">>,
      <<"z", "z", "z", "z", "z", "z", "z", "z">> }

----------------------------------------------------------------------------
(* The GitHub fallback: seed, random and the mock record *)

\* username.split("").reduce((acc, char) => acc + char.charCodeAt(0), 0)
\* seed with the clock mixed in.
seedWithClock(username) ==
    SumSeq([i \in 1..Len(username) |-> CharCode(username[i])]) + now

seed(username) == SumSeq([i \in 1..Len(username) |-> CharCode(username[i])])

\* Math.floor(x * n) for x = s / 1000 in double precision.  It is the exact
\* floor of s * n / 1000 for every s in 0..999 and every n the code uses,
\* except that 0.7 * 90 is 62.99999999999999.
FloorScaled(s, n) == IF s = 700 /\ n = 90 THEN 62 ELSE (s * n) \div 1000

\* random without the reduction of the seed modulo 1000.
randomUnreduced(sd, min, max) == FloorScaled(sd, max - min + 1) + min

\* Math.floor(((seed % 1000) / 1000) * (max - min + 1)) + min
random(sd, min, max) == FloorScaled(sd % 1000, max - min + 1) + min

MockLanguages ==
    <<"JavaScript", "Python", "Java", "TypeScript", "C++", "Go", "Rust", "PHP">>

\* repoNames, each split at its first hyphen.
MockRepoNames ==
    << <<"awesome", "-", "project">>, <<"web", "-", "app">>,
       <<"api", "-", "server">>, <<"mobile", "-", "app">>,
       <<"data", "-", "analysis">>, <<"machine", "-", "learning">>,
       <<"portfolio", "-", "website">>, <<"chat", "-", "application">>,
       <<"e", "-", "commerce">>, <<"blog", "-", "platform">>,
       <<"task", "-", "manager">>, <<"weather", "-", "app">>,
       <<"social", "-", "media">>, <<"game", "-", "engine">> >>

MockLocations == <<"San Francisco", "New York", "London", "Berlin", "Tokyo">>

MockDataSource == Str(<<"Mock Data (GitHub API unavailable)">>)
RealDataSource == Str(<<"GitHub API">>)

\* name.replace("-", " "): the first hyphen becomes a space.
ReplaceFirstHyphen(name) ==
    IF \E i \in 1..Len(name) : name[i] = "-"
    THEN LET i == CHOOSE j \in 1..Len(name) :
                      name[j] = "-" /\ \A h \in 1..(j - 1) : name[h] # "-"
         IN [name EXCEPT ![i] = " "]
    ELSE name

\* The catch branch of the GitHub username handler: the record built from
\* the username, its seed and the clock.
GithubSynthesize(username, t) ==
    LET mock[u \in {username}, sd \in {seed(username)}] ==
            LET selectedLanguages ==
                    [i \in 1..random(sd, 3, 6) |->
                        Obj([name |-> Str(<<MockLanguages[i]>>),
                             count |-> Num(random(sd, 1, 15))])]
                langIndex == random(sd, 0, Len(selectedLanguages) - 1) + 1
                langElem == IF langIndex \in 1..Len(selectedLanguages)
                            THEN selectedLanguages[langIndex] ELSE Undefined
                mockRepos ==
                    [i \in 1..random(sd, 3, 8) |->
                        Obj([name |-> Str(MockRepoNames[i]
                                          \o <<"-", ToString(random(sd, 1, 99))>>),
                             description |->
                                 Str(<<"A ">> \o ReplaceFirstHyphen(MockRepoNames[i])
                                     \o <<" built with modern technologies">>),
                             stars |-> Num(random(sd, 0, 150)),
                             forks |-> Num(random(sd, 0, 50)),
                             url |-> Str(<<"https://github.com/">> \o u
                                         \o <<"/">> \o MockRepoNames[i]),
                             language |-> OrElse(OptGet(langElem, "name"),
                                                 Str(<<"JavaScript">>)),
                             updatedAt |-> Date(t - random(sd, 1, 90))])]
            IN Obj([username |-> Str(u),
                    name |-> Str(<<ToUpperCase(Head(u))>> \o Tail(u)),
                    avatarUrl |-> Str(<<"https://github.com/">> \o u \o <<".png">>),
                    bio |-> Str(<<"Software developer passionate about coding and open source">>),
                    company |-> IF random(sd, 0, 1) # 0
                                THEN Str(<<"Tech Company">>) ELSE Null,
                    blog |-> IF random(sd, 0, 1) # 0
                             THEN Str(<<"https://">> \o u \o <<".dev">>) ELSE Null,
                    location |-> IF random(sd, 0, 4) + 1 \in DOMAIN MockLocations
                                 THEN Str(<<MockLocations[random(sd, 0, 4) + 1]>>)
                                 ELSE Undefined,
                    followers |-> Num(random(sd, 10, 500)),
                    following |-> Num(random(sd, 20, 200)),
                    publicRepos |-> Num(random(sd, 5, 50)),
                    publicGists |-> Num(random(sd, 0, 20)),
                    totalStars |-> Num(SumSeq([i \in 1..Len(mockRepos) |->
                                                  Get(mockRepos[i], "stars")[2]])),
                    languages |-> Arr(selectedLanguages),
                    topRepos |-> Arr(mockRepos),
                    dataSource |-> MockDataSource,
                    lastUpdated |-> Date(t)])
    IN mock[username, seed(username)]

----------------------------------------------------------------------------
(* The GitHub normalisation of a successful upstream response *)

\* Whether lines 620-665 throw: repos.reduce / forEach / sort on something
\* that is no array, repo.stargazers_count on a null element, userData.login
\* on a null body.
GithubNormalizeThrows(userData, repos) ==
    \/ ~IsArr(repos)
    \/ \E i \in 1..Len(repos[2]) : IsNullish(repos[2][i])
    \/ IsNullish(userData)

\* totalStars summed over the five repositories kept in topRepos.
totalStarsOfTop(repos) ==
    LET top == Take(SortDescBy(repos, "stargazers_count"), 5)
    IN SumSeq([i \in 1..Len(top) |-> Get(top[i], "stargazers_count")[2]])

\* repos.reduce((acc, repo) => acc + repo.stargazers_count, 0)
totalStars(repos) ==
    SumSeq([i \in 1..Len(repos) |-> Get(repos[i], "stargazers_count")[2]])

\* The languages object after the forEach: its keys in insertion order (the
\* order of first appearance) with the number of repositories of each.
RECURSIVE LanguageEntries(_, _)
LanguageEntries(repos, acc) ==
    IF repos = <<>> THEN acc
    ELSE LET lang == Get(Head(repos), "language")
             at == {i \in 1..Len(acc) : Get(acc[i], "name") = lang}
         IN IF Falsy(lang) THEN LanguageEntries(Tail(repos), acc)
            ELSE IF at = {}
                 THEN LanguageEntries(Tail(repos),
                          Append(acc, Obj([name |-> lang, count |-> Num(1)])))
                 ELSE LET i == CHOOSE j \in at : TRUE
                      IN LanguageEntries(Tail(repos),
                             [acc EXCEPT ![i] =
                                 Obj([name |-> lang,
                                      count |-> Num(Get(acc[i], "count")[2] + 1)])])

\* languageStats counted over the five repositories kept in topRepos.
languageStatsOfTop(repos) ==
    Take(SortDescBy(LanguageEntries(Take(SortDescBy(repos, "stargazers_count"), 5),
                                    <<>>), "count"), 5)

\* Object.entries(languages).map(...).sort((a, b) => b.count - a.count).slice(0, 5)
languageStats(repos) == Take(SortDescBy(LanguageEntries(repos, <<>>), "count"), 5)

\* topRepos with the slice taken before the sort.
topReposSlicedFirst(repos) ==
    LET top == SortDescBy(Take(repos, 5), "stargazers_count")
    IN [i \in 1..Len(top) |->
           Obj([name |-> Get(top[i], "name"),
                description |-> Get(top[i], "description"),
                stars |-> Get(top[i], "stargazers_count"),
                forks |-> Get(top[i], "forks_count"),
                url |-> Get(top[i], "html_url"),
                language |-> Get(top[i], "language"),
                updatedAt |-> Get(top[i], "updated_at")])]

\* repos.sort((a, b) => b.stargazers_count - a.stargazers_count).slice(0, 5).map(...)
topRepos(repos) ==
    LET top == Take(SortDescBy(repos, "stargazers_count"), 5)
    IN [i \in 1..Len(top) |->
           Obj([name |-> Get(top[i], "name"),
                description |-> Get(top[i], "description"),
                stars |-> Get(top[i], "stargazers_count"),
                forks |-> Get(top[i], "forks_count"),
                url |-> Get(top[i], "html_url"),
                language |-> Get(top[i], "language"),
                updatedAt |-> Get(top[i], "updated_at")])]

\* GithubNormalize with publicGists forgotten.
GithubNormalizeNoGists(userData, repos, t) ==
    Obj([username |-> Get(userData, "login"),
         name |-> Get(userData, "name"),
         avatarUrl |-> Get(userData, "avatar_url"),
         bio |-> Get(userData, "bio"),
         company |-> Get(userData, "company"),
         blog |-> Get(userData, "blog"),
         location |-> Get(userData, "location"),
         followers |-> Get(userData, "followers"),
         following |-> Get(userData, "following"),
         publicRepos |-> Get(userData, "public_repos"),
         totalStars |-> Num(totalStars(repos[2])),
         languages |-> Arr(languageStats(repos[2])),
         topRepos |-> Arr(topRepos(repos[2])),
         dataSource |-> RealDataSource,
         lastUpdated |-> Date(t)])

\* githubStats of the try branch (lines 637-665): userData is the body of
\* the user call, repos the body of the repos call, t the clock.
GithubNormalize(userData, repos, t) ==
    Obj([username |-> Get(userData, "login"),
         name |-> Get(userData, "name"),
         avatarUrl |-> Get(userData, "avatar_url"),
         bio |-> Get(userData, "bio"),
         company |-> Get(userData, "company"),
         blog |-> Get(userData, "blog"),
         location |-> Get(userData, "location"),
         followers |-> Get(userData, "followers"),
         following |-> Get(userData, "following"),
         publicRepos |-> Get(userData, "public_repos"),
         publicGists |-> Get(userData, "public_gists"),
         totalStars |-> Num(totalStars(repos[2])),
         languages |-> Arr(languageStats(repos[2])),
         topRepos |-> Arr(topRepos(repos[2])),
         dataSource |-> RealDataSource,
         lastUpdated |-> Date(t)])

----------------------------------------------------------------------------
(* The LeetCode normalisation *)

\* acSubmissionNum?.find((item) => item.difficulty === label): the first
\* entry with that difficulty, undefined when there is none or no list.
FindDifficulty(acs, label) ==
    IF IsNullish(acs) THEN Undefined
    ELSE LET hits == {i \in 1..Len(acs[2]) :
                         Get(acs[2][i], "difficulty") = Str(<<label>>)}
         IN IF hits = {} THEN Undefined
            ELSE acs[2][CHOOSE i \in hits : \A j \in hits : i <= j]

\* solvedCount falling back on the sum of the other entries.
solvedCountOrSum(acs, label) ==
    IF FindDifficulty(acs, label) = Undefined /\ IsArr(acs)
    THEN Num(SumSeq([i \in 1..Len(acs[2]) |-> Get(acs[2][i], "count")[2]]))
    ELSE OrElse(OptGet(FindDifficulty(acs, label), "count"), Num(0))

\* acSubmissionNum?.find(...)?.count || 0
solvedCount(acs, label) ==
    OrElse(OptGet(FindDifficulty(acs, label), "count"), Num(0))

\* [...(advanced || []), ...(intermediate || []), ...(fundamental || [])]
mergedTags(tagProblemCounts) ==
    OrElse(OptGet(tagProblemCounts, "advanced"), Arr(<<>>))[2]
    \o OrElse(OptGet(tagProblemCounts, "intermediate"), Arr(<<>>))[2]
    \o OrElse(OptGet(tagProblemCounts, "fundamental"), Arr(<<>>))[2]

\* topTags truncated before it is sorted.
topTagsSlicedFirst(tagProblemCounts) ==
    SortDescBy(Take(mergedTags(tagProblemCounts), 5), "problemsSolved")

\* .sort((a, b) => b.problemsSolved - a.problemsSolved).slice(0, 5)
topTags(tagProblemCounts) ==
    Take(SortDescBy(mergedTags(tagProblemCounts), "problemsSolved"), 5)

\* Whether lines 350-380 throw: userData.matchedUser on a body without a
\* data object, .find on an acSubmissionNum that is no array, the spread of
\* a tag tier that is neither falsy nor an array.
LeetcodeNormalizeThrows(userData) ==
    LET mu == Get(userData, "matchedUser")
        acs == OptGet(OptGet(mu, "submitStats"), "acSubmissionNum")
        tpc == OptGet(mu, "tagProblemCounts")
    IN \/ IsNullish(userData)
       \/ ~IsNullish(acs) /\ ~IsArr(acs)
       \/ \E tier \in {"advanced", "intermediate", "fundamental"} :
              ~Falsy(OptGet(tpc, tier)) /\ ~IsArr(OptGet(tpc, tier))

\* leetcodeStats (lines 353-380, and the same lines 510-537): userData is
\* response.data.data.
LeetcodeNormalize(userData) ==
    LET mu == Get(userData, "matchedUser")
        profile == OptGet(mu, "profile")
        acs == OptGet(OptGet(mu, "submitStats"), "acSubmissionNum")
        ucr == Get(userData, "userContestRanking")
    IN Obj([username |-> OptGet(mu, "username"),
            ranking |-> OptGet(profile, "ranking"),
            reputation |-> OptGet(profile, "reputation"),
            realName |-> OptGet(profile, "realName"),
            totalSolved |-> solvedCount(acs, "All"),
            easySolved |-> solvedCount(acs, "Easy"),
            mediumSolved |-> solvedCount(acs, "Medium"),
            hardSolved |-> solvedCount(acs, "Hard"),
            contestAttended |-> OrElse(OptGet(ucr, "attendedContestsCount"), Num(0)),
            contestRating |-> OrElse(OptGet(ucr, "rating"), Num(0)),
            contestGlobalRanking |-> OrElse(OptGet(ucr, "globalRanking"), Num(0)),
            contestBadge |-> OrElse(OptGet(OptGet(ucr, "badge"), "name"), Null),
            badges |-> OrElse(OptGet(mu, "badges"), Arr(<<>>)),
            beatsPercentage |-> OrElse(OptGet(mu, "problemsSolvedBeatsStats"), Arr(<<>>)),
            recentSubmissions |-> OrElse(Get(userData, "recentSubmissionList"), Arr(<<>>)),
            topTags |-> Arr(topTags(OptGet(mu, "tagProblemCounts")))])

----------------------------------------------------------------------------
(* The upstream platforms and the profile store, as the handlers see them *)

\* How an upstream call can end in a rejection.  "httpError" stands for
\* every rejection an answer or the network causes (a status outside 2xx,
\* a refused or reset connection); "timeout" is the call giving up waiting.
\* The GitHub calls set timeout: 5000 (lines 609, 616), so axios ends the
\* wait; the LeetCode calls (lines 345, 502) set none, so only the socket
\* layer can (ETIMEDOUT), if it ever does.
UpstreamFailures == {"httpError", "timeout"}

\* Bodies GET https://api.github.com/users/<u> may answer with status 200:
\* the full user object, and a body that is no JSON (axios hands it over as
\* a string, whose properties all read undefined).
GithubUserFull(u) ==
    Obj([login |-> Str(u),
         name |-> Str(<<"Upstream Name">>),
         avatar_url |-> Str(<<"https://avatars.githubusercontent.com/">> \o u),
         bio |-> Null,
         company |-> Str(<<"Upstream Inc">>),
         blog |-> Str(<<>>),
         location |-> Null,
         followers |-> Num(7),
         following |-> Num(0),
         public_repos |-> Num(2),
         public_gists |-> Num(1)])

GithubUserHtml == Str(<<"<html>Service unavailable</html>">>)

GithubUserBodies(u) == {GithubUserFull(u), GithubUserHtml}

\* One element of the repository listing.
Repo(u, id, stars, lang) ==
    Obj([name |-> Str(<<"repo", ToString(id)>>),
         description |-> Null,
         stargazers_count |-> Num(stars),
         forks_count |-> Num(id),
         html_url |-> Str(<<"https://github.com/">> \o u \o <<"/repo", ToString(id)>>),
         language |-> lang,
         updated_at |-> Str(<<"2024-01-0", ToString(id), "T00:00:00Z">>)])

\* Bodies GET .../users/<u>/repos may answer with status 200: an empty
\* list, a list of two repositories, and an object that is no list.
GithubReposBodies(u) ==
    { Arr(<<>>),
      Arr(<<Repo(u, 1, 0, Null), Repo(u, 2, 5, Str(<<"Go">>))>>),
      Obj([message |-> Str(<<"API rate limit exceeded">>)]) }

\* Bodies POST https://leetcode.com/graphql may answer with status 200: one
\* without a data object, one for an unknown user (matchedUser null), one
\* for a user without profile and contest ranking, and a complete one.
Tag(name, solved) == Obj([tagName |-> Str(<<name>>), problemsSolved |-> Num(solved)])

Submission(difficulty, count) ==
    Obj([difficulty |-> Str(<<difficulty>>), count |-> Num(count),
         submissions |-> Num(2 * count)])

LeetcodeNoData == Obj([errors |-> Arr(<<Obj([message |-> Str(<<"bad request">>)])>>)])

LeetcodeUnknownUser ==
    Obj([data |-> Obj([matchedUser |-> Null,
                       userContestRanking |-> Null,
                       recentSubmissionList |-> Null])])

LeetcodeBare(u) ==
    Obj([data |-> Obj([matchedUser |->
                           Obj([username |-> Str(u),
                                submitStats |-> Obj([acSubmissionNum |->
                                    Arr(<<Submission("Easy", 3), Submission("Hard", 1)>>)]),
                                profile |-> Null,
                                badges |-> Arr(<<>>),
                                tagProblemCounts |-> Null,
                                problemsSolvedBeatsStats |-> Null]),
                       userContestRanking |-> Null,
                       recentSubmissionList |-> Arr(<<>>)])])

LeetcodeFull(u) ==
    Obj([data |-> Obj([matchedUser |->
                           Obj([username |-> Str(u),
                                submitStats |-> Obj([acSubmissionNum |->
                                    Arr(<<Submission("All", 6), Submission("Easy", 3),
                                          Submission("Medium", 2), Submission("Hard", 1)>>)]),
                                profile |-> Obj([ranking |-> Num(1234),
                                                 reputation |-> Num(0),
                                                 starRating |-> Num(2),
                                                 realName |-> Str(<<"Upstream Name">>)]),
                                badges |-> Arr(<<Obj([id |-> Str(<<"1">>),
                                                      displayName |-> Str(<<"50 Days">>),
                                                      icon |-> Str(<<"/badge.png">>)])>>),
                                tagProblemCounts |->
                                    Obj([advanced |-> Arr(<<Tag("Trie", 1)>>),
                                         intermediate |-> Arr(<<Tag("Tree", 4), Tag("Math", 1)>>),
                                         fundamental |-> Arr(<<Tag("Array", 4)>>)]),
                                problemsSolvedBeatsStats |->
                                    Arr(<<Obj([difficulty |-> Str(<<"Easy">>),
                                               percentage |-> Num(50)])>>)]),
                       userContestRanking |->
                           Obj([attendedContestsCount |-> Num(2),
                                rating |-> Num(1500),
                                globalRanking |-> Num(9000),
                                totalParticipants |-> Num(20000),
                                topPercentage |-> Num(45),
                                badge |-> Null]),
                       recentSubmissionList |-> Arr(<<>>)])])

LeetcodeBodies(u) ==
    {LeetcodeNoData, LeetcodeUnknownUser, LeetcodeBare(u), LeetcodeFull(u)}

GithubCom == <<"g", "i", "t", "h", "u", "b", ".", "c", "o", "m", "/">>
Https == <<"h", "t", "t", "p", "s", ":", "/", "/">>

Binding(name, username) == Obj([name |-> Str(<<name>>), username |-> Str(username)])

UserIds == {"u0", "u1", "u2", "u3"}

\* The profile store Profile.findOne reads: u0 has no profile, u1 a profile
\* without a "GitHub" or "LeetCode" entry, u2 plain usernames, u3 a GitHub
\* profile URL.
Profiles(uid) ==
    CASE uid = "u0" -> Null
      [] uid = "u1" ->
            Obj([platforms |-> Arr(<<Binding("Medium", <<"a">>),
                                    Binding("github", <<"a">>),
                                    Binding("Leetcode", <<"a">>)>>)])
      [] uid = "u2" ->
            Obj([platforms |-> Arr(<<Binding("LeetCode", <<"a">>),
                                    Binding("GitHub", <<"a">>)>>)])
      [] OTHER ->
            Obj([platforms |->
                Arr(<<Binding("GitHub",
                              Https \o GithubCom
                              \o <<"z", "z", "z", "z", "z", "z", "z", "z", "/">>),
                      Binding("LeetCode", <<"z", "z", "z", "z", "z", "z", "z", "z">>)>>)])

\* FindPlatform testing platform.name for truth instead of comparing it.
FindPlatformAnyName(profile, name) ==
    LET ps == Get(profile, "platforms")[2]
        hits == {i \in 1..Len(ps) : ~Falsy(Get(ps[i], "name"))}
    IN IF hits = {} THEN Undefined
       ELSE ps[CHOOSE i \in hits : \A j \in hits : i <= j]

\* profile.platforms.find((platform) => platform.name === name)
FindPlatform(profile, name) ==
    LET ps == Get(profile, "platforms")[2]
        hits == {i \in 1..Len(ps) : Get(ps[i], "name") = Str(<<name>>)}
    IN IF hits = {} THEN Undefined
       ELSE ps[CHOOSE i \in hits : \A j \in hits : i <= j]

\* The places where sep occurs in s.
Occurrences(s, sep) ==
    {i \in 1..(Len(s) - Len(sep) + 1) : SubSeq(s, i, i + Len(sep) - 1) = sep}

\* s.split(sep)[1] for an s that includes sep: what stands between the
\* first occurrence of sep and the next one behind it.
SplitSecond(s, sep) ==
    LET first == CHOOSE i \in Occurrences(s, sep) :
                     \A j \in Occurrences(s, sep) : i <= j
        rest == SubSeq(s, first + Len(sep), Len(s))
        more == Occurrences(rest, sep)
    IN IF more = {} THEN rest
       ELSE SubSeq(rest, 1, (CHOOSE i \in more : \A j \in more : i <= j) - 1)

\* s.replace(/\/$/, ""): one trailing slash is removed.
StripTrailingSlash(s) ==
    IF s # <<>> /\ s[Len(s)] = "/" THEN SubSeq(s, 1, Len(s) - 1) ELSE s

\* ExtractGithubUsername without the replace of line 781: a trailing slash
\* stays in the username.
ExtractGithubUsernameKeepSlash(stored) ==
    IF Occurrences(stored, GithubCom) # {}
    THEN SplitSecond(stored, GithubCom)
    ELSE stored

\* Lines 779-782: the username of a stored GitHub binding.
ExtractGithubUsername(stored) ==
    IF Occurrences(stored, GithubCom) # {}
    THEN StripTrailingSlash(SplitSecond(stored, GithubCom))
    ELSE stored

----------------------------------------------------------------------------
(* Requests *)

\* The requests served concurrently, numbered in the order they arrive.
ReqIds == {1, 2}

\* Request r is the next to arrive.
Arrives(r) ==
    /\ reqs[r].pc = "idle"
    /\ \A p \in ReqIds : p < r => reqs[p].pc # "idle"

\* A request nobody has made yet.  calls logs the outbound calls in the
\* order they are issued and outcomes, as <<endpoint, result>>, how each one
\* ended ("ok": it resolved); userData and reposData keep the bodies the
\* upstream answered with.
IdleReq ==
    [handler |-> "none", pc |-> "idle", userId |-> "", username |-> <<>>,
     userData |-> Undefined, reposData |-> Undefined,
     calls |-> <<>>, outcomes |-> <<>>, data |-> Undefined,
     innerStatus |-> 0,
     status |-> 0, body |-> Undefined, sent |-> 0]

\* An outbound call as the request logs it.  The headers of the GitHub
\* calls (lines 598-605, Authorization when GITHUB_TOKEN is set) decide
\* nothing in the handler and are left out.
Call(endpoint) == endpoint

\* The call of q to endpoint has ended with result.
Ended(q, endpoint, result) ==
    [q EXCEPT !.outcomes = Append(@, <<endpoint, result>>)]

\* res.status(status).json(body)
SendJson(q, status, body) ==
    [q EXCEPT !.pc = "done", !.status = status, !.body = ToJson(body),
              !.sent = @ + 1]

ErrorBody(message) == Obj([success |-> Bool(FALSE), error |-> Str(message)])

SuccessBody(stats) == Obj([success |-> Bool(TRUE), data |-> stats])

\* Lines 723-726: the username handler answers 200 with githubStats.  When
\* the request came through the authenticated handler's forward, the answer
\* resolves line 785 and line 787 relays its body with status 200.
GithubRespond(q, stats) ==
    IF q.handler = "githubProfile"
    THEN SendJson([q EXCEPT !.data = stats, !.innerStatus = 200,
                            !.outcomes = Append(@, <<"forward", "ok">>)],
                  200, ToJson(SuccessBody(stats)))
    ELSE SendJson([q EXCEPT !.data = stats], 200, SuccessBody(stats))

\* GithubFallback with seed kept in a variable of the module, which every
\* request overwrites when it starts.
GithubFallbackSharedSeed(q, t) ==
    LET started == {p \in ReqIds : reqs[p].username # <<>>}
        latest == CHOOSE p \in started : \A o \in started : o <= p
    IN GithubRespond(q, GithubSynthesize(IF started = {} THEN q.username
                                         ELSE reqs[latest].username, t))

\* Lines 666-721: the catch branch builds the mock record and the handler
\* answers with it.
GithubFallback(q, t) == GithubRespond(q, GithubSynthesize(q.username, t))

\* GithubBuild keeping the followers the user call answered in the mock
\* record it falls back to.
GithubBuildMixed(q, repos, t) ==
    IF GithubNormalizeThrows(q.userData, repos)
    THEN LET mock == GithubSynthesize(q.username, t)
         IN GithubRespond(q, Obj([k \in Keys(mock) |->
                                     IF k = "followers" /\ IsObj(q.userData)
                                     THEN Get(q.userData, "followers")
                                     ELSE Get(mock, k)]))
    ELSE GithubRespond(q, GithubNormalize(q.userData, repos, t))

\* Lines 620-665 and the catch behind them: the record of a successful pair
\* of upstream answers, or the mock record when building it throws.
GithubBuild(q, repos, t) ==
    IF GithubNormalizeThrows(q.userData, repos)
    THEN GithubFallback(q, t)
    ELSE GithubRespond(q, GithubNormalize(q.userData, repos, t))

\* LeetcodeFailure answering 200 with an empty record instead.
LeetcodeFailureAbsorbed(q) ==
    LET stats == LeetcodeNormalize(Get(LeetcodeUnknownUser, "data"))
    IN SendJson([q EXCEPT !.data = stats], 200, SuccessBody(stats))

\* Lines 386-392 and 543-549: the catch of the LeetCode handlers.
LeetcodeFailure(q) ==
    SendJson(q, 500, ErrorBody(<<"Error fetching LeetCode stats">>))

\* Lines 350-385 and 507-542: the answer to a GraphQL response with status
\* 200 and the given body.
LeetcodeBuild(q, body) ==
    LET userData == Get(body, "data")
    IN IF LeetcodeNormalizeThrows(userData)
       THEN LeetcodeFailure(q)
       ELSE LET stats == LeetcodeNormalize(userData)
            IN SendJson([q EXCEPT !.data = stats], 200, SuccessBody(stats))

Unchanged == UNCHANGED <<now, fnIn, fnOut>>

----------------------------------------------------------------------------
(* GET /api/github/stats/:username *)

\* GithubUsernameRequest issuing the user call and the repos call together.
GithubUsernameRequestParallel(r, u) ==
    /\ Arrives(r)
    /\ reqs' = [reqs EXCEPT ![r] =
                   [@ EXCEPT !.handler = "githubUsername", !.username = u,
                             !.pc = "awaitUser",
                             !.calls = @ \o <<Call("githubUser"), Call("githubRepos")>>]]
    /\ Unchanged

\* Lines 586-610: the handler starts and issues the user call.
GithubUsernameRequest(r, u) ==
    /\ Arrives(r)
    /\ reqs' = [reqs EXCEPT ![r] =
                   [@ EXCEPT !.handler = "githubUsername", !.username = u,
                             !.pc = "awaitUser",
                             !.calls = Append(@, Call("githubUser"))]]
    /\ Unchanged

\* Line 607 rejects: an HTTP error status or a network error.
GithubUserFails(r) ==
    /\ reqs[r].pc = "awaitUser"
    /\ reqs' = [reqs EXCEPT ![r] =
                   GithubFallback(Ended(@, "githubUser", "httpError"), now)]
    /\ Unchanged

\* Line 607 rejects because the 5000 ms timeout (line 609) expired.
GithubUserTimeout(r) ==
    /\ reqs[r].pc = "awaitUser"
    /\ reqs' = [reqs EXCEPT ![r] =
                   GithubFallback(Ended(@, "githubUser", "timeout"), now)]
    /\ Unchanged

\* Line 607 resolves; line 612 issues the repos call.
GithubUserAnswers(r, body) ==
    /\ reqs[r].pc = "awaitUser"
    /\ reqs' = [reqs EXCEPT ![r] =
                   [@ EXCEPT !.userData = body, !.pc = "awaitRepos",
                             !.outcomes = Append(@, <<"githubUser", "ok">>),
                             !.calls = Append(@, Call("githubRepos"))]]
    /\ Unchanged

\* GithubReposFails taking the listing for empty and keeping the user body.
GithubReposFailsAsEmpty(r) ==
    /\ reqs[r].pc = "awaitRepos"
    /\ reqs' = [reqs EXCEPT ![r] =
                   GithubBuild(Ended(@, "githubRepos", "httpError"), Arr(<<>>), now)]
    /\ Unchanged

\* Line 612 rejects: an HTTP error status or a network error.
GithubReposFails(r) ==
    /\ reqs[r].pc = "awaitRepos"
    /\ reqs' = [reqs EXCEPT ![r] =
                   GithubFallback(Ended(@, "githubRepos", "httpError"), now)]
    /\ Unchanged

\* Line 612 rejects because the 5000 ms timeout (line 616) expired.
GithubReposTimeout(r) ==
    /\ reqs[r].pc = "awaitRepos"
    /\ reqs' = [reqs EXCEPT ![r] =
                   GithubFallback(Ended(@, "githubRepos", "timeout"), now)]
    /\ Unchanged

\* Line 612 resolves; lines 620-726 build the record and answer.
GithubReposAnswers(r, body) ==
    /\ reqs[r].pc = "awaitRepos"
    /\ reqs' = [reqs EXCEPT ![r] =
                   GithubBuild([@ EXCEPT !.reposData = body,
                                         !.outcomes = Append(@, <<"githubRepos", "ok">>)],
                               body, now)]
    /\ Unchanged

----------------------------------------------------------------------------
(* GET /api/github/stats (authenticated) *)

\* Lines 757-759: the handler starts and asks the profile store.
GithubProfileRequest(r, uid) ==
    /\ Arrives(r)
    /\ reqs' = [reqs EXCEPT ![r] =
                   [@ EXCEPT !.handler = "githubProfile", !.userId = uid,
                             !.pc = "awaitProfile",
                             !.calls = Append(@, Call("profileStore"))]]
    /\ Unchanged

\* Line 759 rejects (the store is unreachable); lines 788-794 answer 500.
GithubProfileFails(r) ==
    /\ reqs[r].pc = "awaitProfile"
    /\ reqs[r].handler = "githubProfile"
    /\ reqs' = [reqs EXCEPT ![r] =
                   SendJson(Ended(@, "profileStore", "storeError"), 500,
                            ErrorBody(<<"Error fetching GitHub stats">>))]
    /\ Unchanged

\* GithubProfileAnswers with the return of line 762 forgotten: the handler
\* runs on after the 404, profile.platforms throws and the catch answers too.
GithubProfileAnswersNoReturn(r) ==
    /\ reqs[r].pc = "awaitProfile"
    /\ reqs[r].handler = "githubProfile"
    /\ LET profile == Profiles(reqs[r].userId)
           platform == IF IsNullish(profile) THEN Undefined
                       ELSE FindPlatform(profile, "GitHub")
           q == Ended(reqs[r], "profileStore", "ok")
       IN reqs' = [reqs EXCEPT ![r] =
              IF Falsy(profile)
              THEN SendJson(SendJson(q, 404, ErrorBody(<<"Profile ", "not found">>)),
                            500, ErrorBody(<<"Error fetching GitHub stats">>))
              ELSE IF Falsy(platform)
              THEN SendJson(q, 404, ErrorBody(<<"GitHub profile ", "not found">>))
              ELSE [q EXCEPT !.username =
                                 ExtractGithubUsername(Get(platform, "username")[2]),
                             !.pc = "awaitForward",
                             !.calls = Append(@, Call("forward"))]]
    /\ Unchanged

\* Line 759 resolves; lines 761-785 answer 404 or forward the request to
\* the username endpoint.
GithubProfileAnswers(r) ==
    /\ reqs[r].pc = "awaitProfile"
    /\ reqs[r].handler = "githubProfile"
    /\ LET profile == Profiles(reqs[r].userId)
           platform == IF IsNullish(profile) THEN Undefined
                       ELSE FindPlatform(profile, "GitHub")
           q == Ended(reqs[r], "profileStore", "ok")
       IN reqs' = [reqs EXCEPT ![r] =
              IF Falsy(profile)
              THEN SendJson(q, 404, ErrorBody(<<"Profile ", "not found">>))
              ELSE IF Falsy(platform)
              THEN SendJson(q, 404, ErrorBody(<<"GitHub profile ", "not found">>))
              ELSE [q EXCEPT !.username =
                                 ExtractGithubUsername(Get(platform, "username")[2]),
                             !.pc = "awaitForward",
                             !.calls = Append(@, Call("forward"))]]
    /\ Unchanged

\* The forwarded request of line 785 reaches the username endpoint, whose
\* handler starts (lines 586-610).
GithubForwardDelivered(r) ==
    /\ reqs[r].pc = "awaitForward"
    /\ reqs' = [reqs EXCEPT ![r] =
                   [@ EXCEPT !.pc = "awaitUser",
                             !.calls = Append(@, Call("githubUser"))]]
    /\ Unchanged

\* Line 785 rejects before the request is delivered; lines 788-794 answer
\* 500 (err.response is undefined).
GithubForwardFails(r) ==
    /\ reqs[r].pc = "awaitForward"
    /\ reqs' = [reqs EXCEPT ![r] =
                   SendJson(Ended(@, "forward", "forwardError"), 500,
                            ErrorBody(<<"Error fetching GitHub stats">>))]
    /\ Unchanged

----------------------------------------------------------------------------
(* GET /api/leetcode/stats/:username *)

\* Lines 278-348: the handler starts and issues the GraphQL call.
LeetcodeUsernameRequest(r, u) ==
    /\ Arrives(r)
    /\ reqs' = [reqs EXCEPT ![r] =
                   [@ EXCEPT !.handler = "leetcodeUsername", !.username = u,
                             !.pc = "awaitGraphql",
                             !.calls = Append(@, Call("leetcodeGraphql"))]]
    /\ Unchanged

\* LeetcodeFails issuing the call a second time before giving up.
LeetcodeFailsRetrying(r, kind) ==
    /\ reqs[r].pc = "awaitGraphql"
    /\ kind \in UpstreamFailures
    /\ reqs' = [reqs EXCEPT ![r] =
                   IF Len(@.outcomes) < 2
                   THEN [Ended(@, "leetcodeGraphql", kind) EXCEPT
                            !.calls = Append(@, Call("leetcodeGraphql"))]
                   ELSE LeetcodeFailure(Ended(@, "leetcodeGraphql", kind))]
    /\ Unchanged

\* Line 345 or 502 rejects: an HTTP error status or a network error.
LeetcodeFails(r, kind) ==
    /\ reqs[r].pc = "awaitGraphql"
    /\ kind \in UpstreamFailures
    /\ reqs' = [reqs EXCEPT ![r] =
                   LeetcodeFailure(Ended(@, "leetcodeGraphql", kind))]
    /\ Unchanged

\* Line 345 or 502 resolves; the handler builds leetcodeStats and answers.
LeetcodeAnswers(r, body) ==
    /\ reqs[r].pc = "awaitGraphql"
    /\ reqs' = [reqs EXCEPT ![r] =
                   LeetcodeBuild([@ EXCEPT !.userData = body,
                                           !.outcomes = Append(@, <<"leetcodeGraphql", "ok">>)],
                                 body)]
    /\ Unchanged

----------------------------------------------------------------------------
(* GET /api/leetcode/stats (authenticated) *)

\* Lines 416-418: the handler starts and asks the profile store.
LeetcodeProfileRequest(r, uid) ==
    /\ Arrives(r)
    /\ reqs' = [reqs EXCEPT ![r] =
                   [@ EXCEPT !.handler = "leetcodeProfile", !.userId = uid,
                             !.pc = "awaitProfile",
                             !.calls = Append(@, Call("profileStore"))]]
    /\ Unchanged

\* Line 418 rejects (the store is unreachable); lines 543-549 answer 500.
LeetcodeProfileFails(r) ==
    /\ reqs[r].pc = "awaitProfile"
    /\ reqs[r].handler = "leetcodeProfile"
    /\ reqs' = [reqs EXCEPT ![r] =
                   LeetcodeFailure(Ended(@, "profileStore", "storeError"))]
    /\ Unchanged

\* Line 418 resolves; lines 420-505 answer 404 or issue the GraphQL call.
LeetcodeProfileAnswers(r) ==
    /\ reqs[r].pc = "awaitProfile"
    /\ reqs[r].handler = "leetcodeProfile"
    /\ LET profile == Profiles(reqs[r].userId)
           platform == IF IsNullish(profile) THEN Undefined
                       ELSE FindPlatform(profile, "LeetCode")
           q == Ended(reqs[r], "profileStore", "ok")
       IN reqs' = [reqs EXCEPT ![r] =
              IF Falsy(profile)
              THEN SendJson(q, 404, ErrorBody(<<"Profile ", "not found">>))
              ELSE IF Falsy(platform)
              THEN SendJson(q, 404, ErrorBody(<<"LeetCode profile ", "not found">>))
              ELSE [q EXCEPT !.username = Get(platform, "username")[2],
                             !.pc = "awaitGraphql",
                             !.calls = Append(@, Call("leetcodeGraphql"))]]
    /\ Unchanged

----------------------------------------------------------------------------
(* The clock and the specification of the handlers *)

\* Time passes.
Tick ==
    /\ now < MaxTime
    /\ now' = now + 1
    /\ UNCHANGED <<reqs, fnIn, fnOut>>

Init ==
    /\ reqs = [r \in ReqIds |-> IdleReq]
    /\ now = 0
    /\ fnIn = [fn |-> "none"]
    /\ fnOut = Undefined

Next ==
    \/ Tick
    \/ \E r \in ReqIds :
        \/ \E u \in Usernames : GithubUsernameRequest(r, u)
        \/ GithubUserFails(r)
        \/ GithubUserTimeout(r)
        \/ \E body \in GithubUserBodies(reqs[r].username) : GithubUserAnswers(r, body)
        \/ GithubReposFails(r)
        \/ GithubReposTimeout(r)
        \/ \E body \in GithubReposBodies(reqs[r].username) : GithubReposAnswers(r, body)
        \/ \E uid \in UserIds : GithubProfileRequest(r, uid)
        \/ GithubProfileFails(r)
        \/ GithubProfileAnswers(r)
        \/ GithubForwardDelivered(r)
        \/ GithubForwardFails(r)
        \/ \E u \in Usernames : LeetcodeUsernameRequest(r, u)
        \/ \E kind \in UpstreamFailures : LeetcodeFails(r, kind)
        \/ \E body \in LeetcodeBodies(reqs[r].username) : LeetcodeAnswers(r, body)
        \/ \E uid \in UserIds : LeetcodeProfileRequest(r, uid)
        \/ LeetcodeProfileFails(r)
        \/ LeetcodeProfileAnswers(r)

Spec == Init /\ [][Next]_vars

\* The timers of the two GitHub calls (timeout: 5000, lines 609 and 616):
\* axios rejects a call still pending when its timer expires.  The call of
\* line 345, of line 502 and of line 785 are made without a timeout, and
\* nothing obliges an upstream to answer.
Timers ==
    \A r \in ReqIds :
        WF_vars(GithubUserTimeout(r)) /\ WF_vars(GithubReposTimeout(r))

\* One request served on its own: every step of Next that is a step of
\* request 1.
NextAlone ==
    \/ \E u \in Usernames : GithubUsernameRequest(1, u)
    \/ GithubUserFails(1)
    \/ GithubUserTimeout(1)
    \/ \E body \in GithubUserBodies(reqs[1].username) : GithubUserAnswers(1, body)
    \/ GithubReposFails(1)
    \/ GithubReposTimeout(1)
    \/ \E body \in GithubReposBodies(reqs[1].username) : GithubReposAnswers(1, body)
    \/ \E uid \in UserIds : GithubProfileRequest(1, uid)
    \/ GithubProfileFails(1)
    \/ GithubProfileAnswers(1)
    \/ GithubForwardDelivered(1)
    \/ GithubForwardFails(1)
    \/ \E u \in Usernames : LeetcodeUsernameRequest(1, u)
    \/ \E kind \in UpstreamFailures : LeetcodeFails(1, kind)
    \/ \E body \in LeetcodeBodies(reqs[1].username) : LeetcodeAnswers(1, body)
    \/ \E uid \in UserIds : LeetcodeProfileRequest(1, uid)
    \/ LeetcodeProfileFails(1)
    \/ LeetcodeProfileAnswers(1)

\* One request with the timers running.
SpecTimed == Init /\ [][NextAlone]_vars /\ Timers

----------------------------------------------------------------------------
(* The normalisations applied on their own, to larger upstream answers *)

SeqsUpTo(S, n) == UNION {[1..k -> S] : k \in 0..n}

\* The language of the i-th repository of a generated listing.
LanguageAt(i) ==
    CASE i % 3 = 1 -> Str(<<"Go">>)
      [] i % 3 = 2 -> Null
      [] OTHER -> Str(<<"Rust">>)

\* The repository listing with the given star counts, in upstream order.
ReposWithStars(stars) ==
    Arr([i \in 1..Len(stars) |-> Repo(<<"a">>, i, stars[i], LanguageAt(i))])

\* Star counts of the listings normalised: every list of up to MaxRepos
\* counts in 0..MaxStars, and the list [5, 0, 12].
StarLists == SeqsUpTo(0..MaxStars, MaxRepos) \cup {<<5, 0, 12>>}

GithubInputs ==
    {[fn |-> "githubNormalize", userData |-> GithubUserFull(<<"a">>),
      repos |-> ReposWithStars(stars)] : stars \in StarLists}

\* The language lists of the listings normalised: every list of up to
\* MaxRepos entries in which an entry is 0 (no language), a language listed
\* before it, or the next language not listed yet.
RECURSIVE LanguageLists(_)
LanguageLists(n) ==
    IF n = 0 THEN {<<>>}
    ELSE LET shorter == LanguageLists(n - 1)
         IN shorter \cup
            {Append(l, k) :
                <<l, k>> \in {x \in shorter \X (0..n) :
                                 /\ Len(x[1]) = n - 1
                                 /\ x[2] <= Cardinality({x[1][i] : i \in 1..(n - 1)}
                                                         \ {0}) + 1}}

\* The repository listing with the given languages, in upstream order; the
\* star counts run 1, 2, 0, 1, 2, 0, ...
ReposWithLanguages(l) ==
    Arr([i \in 1..Len(l) |->
            Repo(<<"a">>, i, i % 3,
                 IF l[i] = 0 THEN Null ELSE Str(<<"lang", ToString(l[i])>>))])

GithubLanguageInputs ==
    {[fn |-> "githubNormalize", userData |-> GithubUserFull(<<"a">>),
      repos |-> ReposWithLanguages(l)] : l \in LanguageLists(MaxRepos)}

\* c repeated n times.
Repeat(c, n) == [i \in 1..n |-> c]

\* The usernames a mock record is built for on its own: up to MaxName
\* characters, some "a" (code 97), then some "d" (100), then some "z" (122).
SynthesisInputs ==
    {[fn |-> "githubSynthesize",
      username |-> Repeat("a", n[1]) \o Repeat("d", n[2]) \o Repeat("z", n[3])] :
        n \in {m \in (0..MaxName) \X (0..MaxName) \X (0..MaxName) :
                  m[1] + m[2] + m[3] \in 1..MaxName}}

Difficulties == {"All", "Easy", "Medium", "Hard", "all"}

\* response.data.data for a user with the given acSubmissionNum and tag tiers.
LeetcodeData(acs, tpc) ==
    Obj([matchedUser |->
             Obj([username |-> Str(<<"a">>),
                  submitStats |-> Obj([acSubmissionNum |-> acs]),
                  profile |-> Null,
                  badges |-> Null,
                  tagProblemCounts |-> tpc,
                  problemsSolvedBeatsStats |-> Null]),
         userContestRanking |-> Null,
         recentSubmissionList |-> Null])

\* Every acSubmissionNum list of up to MaxSubs entries with a difficulty of
\* Difficulties and a count in 0..MaxCount; a missing list; and the answers
\* of LeetcodeBodies.
SubmissionLists ==
    {[i \in 1..Len(l) |-> Submission(l[i][1], l[i][2])] :
        l \in SeqsUpTo(Difficulties \X (0..MaxCount), MaxSubs)}

LeetcodeSubmissionInputs ==
    {[fn |-> "leetcodeNormalize", userData |-> LeetcodeData(Arr(acs), Null)] :
        acs \in SubmissionLists}
    \cup {[fn |-> "leetcodeNormalize", userData |-> LeetcodeData(Null, Null)]}
    \cup {[fn |-> "leetcodeNormalize", userData |-> Get(body, "data")] :
            body \in {LeetcodeUnknownUser, LeetcodeBare(<<"a">>), LeetcodeFull(<<"a">>)}}

\* A tag tier: missing (null), or up to MaxTier tags named after the tier
\* and their place in it, each with problemsSolved in 0..MaxTagSolved.
Tiers(prefix) ==
    {Null} \cup
    {Arr([i \in 1..Len(l) |-> Tag(prefix \o ToString(i), l[i])]) :
        l \in SeqsUpTo(0..MaxTagSolved, MaxTier)}

LeetcodeTagInputs ==
    {[fn |-> "leetcodeNormalize",
      userData |-> LeetcodeData(Null, Obj([advanced |-> a, intermediate |-> i,
                                           fundamental |-> f]))] :
        a \in Tiers("adv"), i \in Tiers("int"), f \in Tiers("fun")}

\* Lines 620-665 applied to one pair of upstream answers.
NormalizeGithub ==
    /\ fnIn.fn = "githubNormalize"
    /\ fnOut = Undefined
    /\ ~GithubNormalizeThrows(fnIn.userData, fnIn.repos)
    /\ fnOut' = GithubNormalize(fnIn.userData, fnIn.repos, now)
    /\ UNCHANGED <<reqs, now, fnIn>>

\* Lines 350-380 applied to one upstream answer.
NormalizeLeetcode ==
    /\ fnIn.fn = "leetcodeNormalize"
    /\ fnOut = Undefined
    /\ ~LeetcodeNormalizeThrows(fnIn.userData)
    /\ fnOut' = LeetcodeNormalize(fnIn.userData)
    /\ UNCHANGED <<reqs, now, fnIn>>

\* Lines 666-720 applied to one username.
SynthesizeGithub ==
    /\ fnIn.fn = "githubSynthesize"
    /\ fnOut = Undefined
    /\ fnOut' = GithubSynthesize(fnIn.username, now)
    /\ UNCHANGED <<reqs, now, fnIn>>

InitNormalize ==
    /\ reqs = [r \in ReqIds |-> IdleReq]
    /\ now = 0
    /\ fnOut = Undefined
    /\ \/ fnIn \in GithubInputs
       \/ fnIn \in GithubLanguageInputs
       \/ fnIn \in SynthesisInputs
       \/ fnIn \in LeetcodeSubmissionInputs
       \/ fnIn \in LeetcodeTagInputs

NextNormalize == NormalizeGithub \/ NormalizeLeetcode \/ SynthesizeGithub

SpecNormalize == InitNormalize /\ [][NextNormalize]_vars

----------------------------------------------------------------------------
(* What the properties below speak of *)

GithubFields ==
    {"username", "name", "avatarUrl", "bio", "company", "blog", "location",
     "followers", "following", "publicRepos", "publicGists", "totalStars",
     "languages", "topRepos", "dataSource", "lastUpdated"}

RepoFields == {"name", "description", "stars", "forks", "url", "language", "updatedAt"}

LanguageFields == {"name", "count"}

LeetcodeFields ==
    {"username", "ranking", "reputation", "realName", "totalSolved",
     "easySolved", "mediumSolved", "hardSolved", "contestAttended",
     "contestRating", "contestGlobalRanking", "contestBadge", "badges",
     "beatsPercentage", "recentSubmissions", "topTags"}

UpstreamEndpoints == {"githubUser", "githubRepos", "leetcodeGraphql"}

IsGithub(q) == q.handler \in {"githubUsername", "githubProfile"}
IsLeetcode(q) == q.handler \in {"leetcodeUsername", "leetcodeProfile"}
IsDone(q) == q.pc = "done"

HasOutcome(q, endpoint, result) ==
    \E i \in 1..Len(q.outcomes) : q.outcomes[i] = <<endpoint, result>>

\* The call of q to endpoint was rejected.
Rejected(q, endpoint) ==
    \E i \in 1..Len(q.outcomes) :
        q.outcomes[i][1] = endpoint /\ q.outcomes[i][2] # "ok"

\* A user body is a user object, a repos body a list of objects, a GraphQL
\* body an object with a data object.
WellFormedUser(body) == IsObj(body) /\ "login" \in Keys(body)
WellFormedRepos(body) == IsArr(body) /\ \A i \in 1..Len(body[2]) : IsObj(body[2][i])
WellFormedGraphql(body) == IsObj(body) /\ IsObj(Get(body, "data"))

\* An upstream call of the GitHub request q failed: it was rejected, or it
\* resolved with a malformed body.
GithubUpstreamFailed(q) ==
    \/ Rejected(q, "githubUser")
    \/ Rejected(q, "githubRepos")
    \/ HasOutcome(q, "githubUser", "ok") /\ ~WellFormedUser(q.userData)
    \/ HasOutcome(q, "githubRepos", "ok") /\ ~WellFormedRepos(q.reposData)

LeetcodeUpstreamFailed(q) ==
    \/ Rejected(q, "leetcodeGraphql")
    \/ HasOutcome(q, "leetcodeGraphql", "ok") /\ ~WellFormedGraphql(q.userData)

\* The JSON answer is {success: true, data: ...} with status 200.
AnsweredSuccess(q) ==
    /\ q.status = 200
    /\ Keys(q.body) = {"success", "data"}
    /\ Get(q.body, "success") = Bool(TRUE)

\* The JSON answer is {success: false, error: message} with the status.
AnsweredError(q, status, message) ==
    /\ q.status = status
    /\ q.body = Obj([success |-> Bool(FALSE), error |-> Str(message)])

IsSynthesized(q) ==
    IsGithub(q) /\ q.data # Undefined /\ Get(q.data, "dataSource") = MockDataSource

IsNormalized(q) ==
    IsGithub(q) /\ q.data # Undefined /\ Get(q.data, "dataSource") = RealDataSource

\* The mock record of every username of the model on every day of the clock.
Mocks == {<<u, t, GithubSynthesize(u, t)>> : u \in Usernames, t \in 0..MaxTime}

\* The mock record for username u built on day t.
MockOf(u, t) == (CHOOSE m \in Mocks : m[1] = u /\ m[2] = t)[3]

\* Every record a handler can build from the upstream bodies of the model,
\* paired with the JSON body that carries it.
RecordAndBody ==
    UNION {
      {<<d, ToJson(SuccessBody(d))>> :
          d \in {GithubSynthesize(u, t) : t \in 0..MaxTime}
                \cup {GithubNormalize(x[1], x[2], x[3]) :
                         x \in {y \in GithubUserBodies(u) \X GithubReposBodies(u)
                                        \X (0..MaxTime) :
                                    ~GithubNormalizeThrows(y[1], y[2])}}
                \cup {LeetcodeNormalize(Get(b, "data")) :
                         b \in LeetcodeBodies(u) \ {LeetcodeNoData}}}
      : u \in Usernames }

----------------------------------------------------------------------------
(* C1 *)

\* C1: whenever an upstream call of GET /api/github/stats/:username fails
\* (it times out, is rejected, or resolves with a malformed body), the
\* answer is 200, success: true, with the mock data source.  The code does
\* not do this for a malformed user body that is not null: reading its
\* properties throws nothing, and the record is built as "GitHub API".
C1_GithubFailureSynthesized ==
    \A r \in ReqIds :
        LET q == reqs[r]
        IN q.handler = "githubUsername" /\ IsDone(q) /\ GithubUpstreamFailed(q)
           => /\ AnsweredSuccess(q)
              /\ Get(Get(q.body, "data"), "dataSource") = MockDataSource

----------------------------------------------------------------------------
(* C2 *)

----------------------------------------------------------------------------
(* C3 *)

----------------------------------------------------------------------------
(* C4 *)

ElementKeys(record, field) ==
    {Keys(Get(record, field)[2][i]) : i \in 1..Len(Get(record, field)[2])}

\* C4: the record built from a successful pair of GitHub answers has the
\* same field names as the mock record for the same username: the sixteen
\* top-level names, and the same names in every element of topRepos and of
\* languages.  When the user body is the full user object, the JSON sent
\* has these names too.
C4_GithubShapeParity ==
    \A r \in ReqIds :
        LET q == reqs[r]
            mock == MockOf(q.username, now)
        IN IsNormalized(q)
           => /\ Keys(q.data) = GithubFields
              /\ Keys(q.data) = Keys(mock)
              /\ ElementKeys(q.data, "topRepos") \subseteq ElementKeys(mock, "topRepos")
              /\ ElementKeys(q.data, "languages") \subseteq ElementKeys(mock, "languages")
              /\ ElementKeys(mock, "topRepos") = {RepoFields}
              /\ ElementKeys(mock, "languages") = {LanguageFields}
              /\ (IsDone(q) /\ q.userData = GithubUserFull(q.username)
                  => JsonKeys(Get(q.body, "data")) = GithubFields)

\* A record was built from upstream answers with a repository and a language.
C4_Witness ==
    \E r \in ReqIds :
        /\ IsNormalized(reqs[r]) /\ IsDone(reqs[r])
        /\ reqs[r].userData = GithubUserFull(reqs[r].username)
        /\ Len(Get(reqs[r].data, "topRepos")[2]) > 0
        /\ Len(Get(reqs[r].data, "languages")[2]) > 0

----------------------------------------------------------------------------
(* C5 *)

PlatformOf(q) == IF IsGithub(q) THEN "GitHub" ELSE "LeetCode"

\* The stored profile of q's user is missing or names no such platform.
NoBinding(q) ==
    LET profile == Profiles(q.userId)
    IN \/ profile = Null
       \/ \A i \in 1..Len(Get(profile, "platforms")[2]) :
              Get(Get(profile, "platforms")[2][i], "name") # Str(<<PlatformOf(q)>>)

EndsWithNotFound(body) ==
    LET e == Get(body, "error")
    IN e[1] = "str" /\ e[2] # <<>> /\ e[2][Len(e[2])] = "not found"

\* C5: when the profile store has answered the authenticated GET /stats of
\* either platform and there is no profile, or no entry named for the
\* platform, the answer is 404 {success: false, error: "... not found"};
\* the request has made no call but the one to the store and built no record.
C5_NoBindingNotFound ==
    \A r \in ReqIds :
        LET q == reqs[r]
        IN q.handler \in {"githubProfile", "leetcodeProfile"}
           /\ HasOutcome(q, "profileStore", "ok") /\ NoBinding(q)
           => /\ IsDone(q)
              /\ q.status = 404
              /\ Keys(q.body) = {"success", "error"}
              /\ Get(q.body, "success") = Bool(FALSE)
              /\ EndsWithNotFound(q.body)
              /\ q.calls = <<"profileStore">>
              /\ q.data = Undefined
              /\ q.sent = 1

\* A GitHub request of a user without profile and a LeetCode request of a
\* user whose profile names neither platform have been answered.
C5_Witness ==
    \E r1, r2 \in ReqIds :
        /\ reqs[r1].handler = "githubProfile" /\ reqs[r1].userId = "u0"
        /\ reqs[r1].status = 404
        /\ reqs[r2].handler = "leetcodeProfile" /\ reqs[r2].userId = "u1"
        /\ reqs[r2].status = 404

----------------------------------------------------------------------------
(* C3, amended *)

\* Days between each topRepos[i].updatedAt and lastUpdated.
RepoAges(data) ==
    LET repos == Get(data, "topRepos")[2]
    IN [i \in 1..Len(repos) |->
           Get(data, "lastUpdated")[2] - Get(repos[i], "updatedAt")[2]]

\* The record with its timestamps blanked.
WithoutClock(data) ==
    LET repos == Get(data, "topRepos")[2]
        blank(o, key) == Obj([k \in Keys(o) |-> IF k = key THEN Null ELSE Get(o, k)])
    IN Obj([k \in Keys(data) |->
               CASE k = "lastUpdated" -> Null
                 [] k = "topRepos" ->
                      Arr([i \in 1..Len(repos) |-> blank(repos[i], "updatedAt")])
                 [] OTHER -> Get(data, k)])

----------------------------------------------------------------------------
(* C6 *)

NormalizedGithub == fnIn.fn = "githubNormalize" /\ fnOut # Undefined

\* stargazers_count of the listing normalised, in upstream order.
StarsIn == [i \in 1..Len(fnIn.repos[2]) |->
               Get(fnIn.repos[2][i], "stargazers_count")[2]]

\* The sum of a list of naturals below 13, counted layer by layer.
LayerSum(stars) ==
    LET layer[k \in 0..12] ==
            IF k = 0 THEN 0
            ELSE layer[k - 1] + Cardinality({i \in 1..Len(stars) : stars[i] >= k})
    IN layer[12]

\* C6: totalStars of a normalised listing is the sum of stargazers_count
\* over every repository of the listing: 17 for [5, 0, 12], 0 for the empty
\* listing, and never less than the stars of the repositories in topRepos.
C6_TotalStarsSumsAll ==
    NormalizedGithub
    => /\ Get(fnOut, "totalStars") = Num(LayerSum(StarsIn))
       /\ (StarsIn = <<5, 0, 12>> => Get(fnOut, "totalStars") = Num(17))
       /\ (StarsIn = <<>> => Get(fnOut, "totalStars") = Num(0))

\* A listing of more than five repositories, each with a star, was normalised.
C6_Witness ==
    /\ NormalizedGithub
    /\ Len(StarsIn) > 5
    /\ \A i \in 1..Len(StarsIn) : StarsIn[i] > 0
    /\ Get(fnOut, "totalStars")[2] > 5

----------------------------------------------------------------------------
(* C7 *)

NormalizedLeetcode == fnIn.fn = "leetcodeNormalize" /\ fnOut # Undefined

\* acSubmissionNum of the answer normalised, as a sequence (empty if absent).
AcsIn ==
    LET acs == OptGet(OptGet(Get(fnIn.userData, "matchedUser"), "submitStats"),
                      "acSubmissionNum")
    IN IF IsArr(acs) THEN acs[2] ELSE <<>>

\* field is the count of the first entry of AcsIn with the difficulty, or 0.
CountsFirst(field, difficulty) ==
    LET matches(i) == Get(AcsIn[i], "difficulty") = Str(<<difficulty>>)
    IN /\ \A i \in 1..Len(AcsIn) :
              matches(i) /\ (\A j \in 1..(i - 1) : ~matches(j))
              => Get(fnOut, field) = Get(AcsIn[i], "count")
       /\ (\A i \in 1..Len(AcsIn) : ~matches(i)) => Get(fnOut, field) = Num(0)

\* C7: totalSolved, easySolved, mediumSolved and hardSolved are the count of
\* the first acSubmissionNum entry whose difficulty is exactly "All",
\* "Easy", "Medium", "Hard", and 0 without such an entry; Easy 3 and Hard 1
\* without an "All" entry give totalSolved 0.
C7_SolvedCountsFirstMatch ==
    NormalizedLeetcode
    => /\ CountsFirst("totalSolved", "All")
       /\ CountsFirst("easySolved", "Easy")
       /\ CountsFirst("mediumSolved", "Medium")
       /\ CountsFirst("hardSolved", "Hard")
       /\ (fnIn.userData = Get(LeetcodeBare(<<"a">>), "data")
           => /\ Get(fnOut, "totalSolved") = Num(0)
              /\ Get(fnOut, "easySolved") = Num(3)
              /\ Get(fnOut, "hardSolved") = Num(1))

\* An answer with positive counts and no "All" entry was normalised.
C7_Witness ==
    /\ NormalizedLeetcode
    /\ Len(AcsIn) = 2
    /\ \A i \in 1..Len(AcsIn) :
           /\ Get(AcsIn[i], "difficulty") # Str(<<"All">>)
           /\ Get(AcsIn[i], "count")[2] > 0
    /\ Get(fnOut, "totalSolved") = Num(0)

----------------------------------------------------------------------------
(* C8 *)

\* advanced ++ intermediate ++ fundamental of the answer normalised, a
\* missing tier counting as empty.
MergedIn ==
    LET tpc == OptGet(Get(fnIn.userData, "matchedUser"), "tagProblemCounts")
        tier(name) == IF IsArr(OptGet(tpc, name)) THEN OptGet(tpc, name)[2] ELSE <<>>
    IN tier("advanced") \o tier("intermediate") \o tier("fundamental")

Solved(tag) == Get(tag, "problemsSolved")[2]

\* C8: topTags holds the first five of the merged tiers in descending order
\* of problemsSolved, ties in the order of the concatenation: it has
\* min(5, n) entries, each a tag of the merged list taken once, each at
\* least as large as the next, equal neighbours in concatenation order, and
\* every omitted tag is no larger than the last kept one (and comes later
\* in the concatenation when equal).
C8_TopTagsMergedSortedTruncated ==
    NormalizedLeetcode
    => LET top == Get(fnOut, "topTags")[2]
           Pos(i) == CHOOSE m \in 1..Len(MergedIn) : MergedIn[m] = top[i]
           kept == {Pos(i) : i \in 1..Len(top)}
       IN /\ Len(top) = Min(5, Len(MergedIn))
          /\ \A i \in 1..Len(top) : \E m \in 1..Len(MergedIn) : MergedIn[m] = top[i]
          /\ Cardinality(kept) = Len(top)
          /\ \A i \in 1..(Len(top) - 1) :
                 \/ Solved(top[i]) > Solved(top[i + 1])
                 \/ Solved(top[i]) = Solved(top[i + 1]) /\ Pos(i) < Pos(i + 1)
          /\ \A m \in (1..Len(MergedIn)) \ kept :
                 \/ Solved(MergedIn[m]) < Solved(top[Len(top)])
                 \/ Solved(MergedIn[m]) = Solved(top[Len(top)]) /\ m > Pos(Len(top))

\* Six tags were merged, the sort moved a tag forward, and the omitted tag
\* ties with the last one kept.
C8_Witness ==
    /\ NormalizedLeetcode
    /\ Len(MergedIn) = 6
    /\ Len(Get(fnOut, "topTags")[2]) = 5
    /\ Get(fnOut, "topTags")[2] # Take(MergedIn, 5)
    /\ \E m \in 1..6 :
           /\ \A i \in 1..5 : Get(fnOut, "topTags")[2][i] # MergedIn[m]
           /\ Solved(MergedIn[m]) = Solved(Get(fnOut, "topTags")[2][5])

----------------------------------------------------------------------------
(* C9 *)

\* C9: the record of every answer built from a successful upstream payload
\* has the full field set of its platform in the JSON sent.  The code leaves
\* username, ranking, reputation and realName undefined when matchedUser is
\* null (lines 354-357 have no default), and JSON drops them.
C9_FixedFieldSet ==
    \A r \in ReqIds :
        LET q == reqs[r]
        IN /\ (IsLeetcode(q) /\ IsDone(q) /\ q.status = 200
               /\ WellFormedGraphql(q.userData)
               => JsonKeys(Get(q.body, "data")) = LeetcodeFields)
           /\ (IsGithub(q) /\ IsDone(q) /\ IsNormalized(q)
               /\ WellFormedUser(q.userData) /\ WellFormedRepos(q.reposData)
               => JsonKeys(Get(q.body, "data")) = GithubFields)

----------------------------------------------------------------------------
(* C10 *)

Count(s, x) == Cardinality({i \in 1..Len(s) : s[i] = x})

UpstreamCalls(q) == Cardinality({i \in 1..Len(q.calls) : q.calls[i] \in UpstreamEndpoints})

\* The LeetCode request q has got as far as asking LeetCode.
ReachedGraphql(q) ==
    \/ q.handler = "leetcodeUsername"
    \/ q.handler = "leetcodeProfile"
       /\ HasOutcome(q, "profileStore", "ok") /\ ~NoBinding(q)

----------------------------------------------------------------------------
(* C11 *)

\* The user call of q resolved and the repos call was rejected.
ReposFailedAfterUser(q) ==
    IsGithub(q) /\ HasOutcome(q, "githubUser", "ok") /\ Rejected(q, "githubRepos")

\* C11: when the user call resolves and the repos call is rejected, the
\* answer is 200 with the mock record of the username, whole: it is the
\* record the catch branch builds from the username and the clock alone,
\* marked as mock data, whatever the user call answered.
C11_PartialFailureIsTotal ==
    \A r \in ReqIds :
        LET q == reqs[r]
        IN ReposFailedAfterUser(q)
           => /\ IsDone(q) /\ AnsweredSuccess(q)
              /\ \E t \in 0..now : q.data = MockOf(q.username, t)
              /\ Get(q.data, "dataSource") = MockDataSource
              /\ <<q.data, q.body>> \in RecordAndBody
              /\ \A p \in ReqIds \ {r} :
                     ReposFailedAfterUser(reqs[p])
                     /\ reqs[p].username = q.username
                     => WithoutClock(reqs[p].data) = WithoutClock(q.data)

\* Two requests for one username got different user bodies, one of them the
\* full user object, and both lost the repos call.
C11_Witness ==
    \E r1, r2 \in ReqIds :
        /\ ReposFailedAfterUser(reqs[r1]) /\ ReposFailedAfterUser(reqs[r2])
        /\ reqs[r1].username = reqs[r2].username
        /\ reqs[r1].userData = GithubUserFull(reqs[r1].username)
        /\ reqs[r2].userData # reqs[r1].userData

----------------------------------------------------------------------------
(* C12 *)

AwaitsUpstream(q) == q.pc \in {"awaitUser", "awaitRepos", "awaitGraphql"}

\* C12: a request waiting for an upstream call is eventually answered, even
\* if the upstream never answers, because every upstream call has a
\* timeout.  The code gives the two GitHub calls a timeout and the LeetCode
\* GraphQL call none (lines 345-348, 502-505), so a LeetCode request whose
\* upstream stays silent waits for ever.
C12_BoundedWaiting ==
    \A r \in ReqIds : AwaitsUpstream(reqs[r]) ~> IsDone(reqs[r])

----------------------------------------------------------------------------
(* C13 *)

\* The answer of q is {success: true, data: <record>} with status 200.
SuccessEnvelope(q) ==
    /\ AnsweredSuccess(q)
    /\ IsObj(Get(q.body, "data"))

\* The answer of q is {success: false, error: <string>} with status 404 or 500.
FailureEnvelope(q) ==
    /\ q.status \in {404, 500}
    /\ Keys(q.body) = {"success", "error"}
    /\ Get(q.body, "success") = Bool(FALSE)
    /\ Get(q.body, "error")[1] = "str"
    /\ Get(q.body, "error")[2] # <<>>

----------------------------------------------------------------------------
(* C14 *)

\* The error answer q's own handler, user and store outcome call for.
OwnError(q) ==
    IF HasOutcome(q, "profileStore", "ok") /\ Profiles(q.userId) = Null
    THEN <<404, ErrorBody(<<"Profile ", "not found">>)>>
    ELSE IF HasOutcome(q, "profileStore", "ok") /\ NoBinding(q)
    THEN <<404, ErrorBody(<<PlatformOf(q) \o " profile ", "not found">>)>>
    ELSE <<500, ErrorBody(<<"Error fetching " \o PlatformOf(q) \o " stats">>)>>

\* The record q's own username and upstream answers call for, stamped with
\* the day q stamped its record with.
OwnRecord(q) ==
    LET t == Get(q.data, "lastUpdated")[2]
    IN IF IsLeetcode(q) THEN LeetcodeNormalize(Get(q.userData, "data"))
       ELSE IF Rejected(q, "githubUser") \/ Rejected(q, "githubRepos")
               \/ GithubNormalizeThrows(q.userData, q.reposData)
       THEN MockOf(q.username, t)
       ELSE GithubNormalize(q.userData, q.reposData, t)

\* The answer of q is the one its own fields call for.
OwnAnswer(q) ==
    IF q.data = Undefined
    THEN <<q.status, q.body>> = OwnError(q)
    ELSE /\ q.data = OwnRecord(q)
         /\ q.status = 200
         /\ <<q.data, q.body>> \in RecordAndBody

\* C14: whatever the interleaving of the requests served together, the
\* answer a request has sent is the one its own username (or binding) and
\* the outcomes of its own upstream calls call for, and a request that has
\* not been made yet holds nothing of another.
C14_RequestIsolation ==
    \A r \in ReqIds :
        /\ IsDone(reqs[r]) => OwnAnswer(reqs[r])
        /\ reqs[r].pc = "idle" => reqs[r] = IdleReq

\* Two requests for different users were in progress together and both
\* have been answered with a record, the first to arrive last.
C14_Witness ==
    /\ IsDone(reqs[1]) /\ IsDone(reqs[2])
    /\ reqs[1].data # Undefined /\ reqs[2].data # Undefined
    /\ reqs[1].username # reqs[2].username
    /\ IsGithub(reqs[1]) /\ IsGithub(reqs[2])
    /\ Len(reqs[1].outcomes) > 0 /\ reqs[1].outcomes[Len(reqs[1].outcomes)][2] # "ok"

----------------------------------------------------------------------------
(* C15 *)

\* Both upstream calls of q resolved and lines 620-665 built the record
\* without throwing.
BothSucceeded(q) ==
    /\ HasOutcome(q, "githubUser", "ok")
    /\ HasOutcome(q, "githubRepos", "ok")
    /\ ~GithubNormalizeThrows(q.userData, q.reposData)

\* C15: the record a GitHub request returns is marked "GitHub API" exactly
\* when both upstream calls resolved and the normalisation completed, and
\* carries the mock marker otherwise.  A record marked "GitHub API" is the
\* normalisation of the two upstream bodies; a record with the mock marker
\* is the mock record of the username, with no upstream value in it.  The
\* body sent carries the same marker.
C15_ProvenanceExact ==
    \A r \in ReqIds :
        LET q == reqs[r]
            t == Get(q.data, "lastUpdated")[2]
        IN IsGithub(q) /\ q.data # Undefined
           => /\ Get(q.data, "dataSource") \in {RealDataSource, MockDataSource}
              /\ Get(q.data, "dataSource") = RealDataSource <=> BothSucceeded(q)
              /\ Get(q.data, "dataSource") = MockDataSource <=> ~BothSucceeded(q)
              /\ BothSucceeded(q)
                 => q.data = GithubNormalize(q.userData, q.reposData, t)
              /\ ~BothSucceeded(q) => q.data = MockOf(q.username, t)
              /\ Get(Get(q.body, "data"), "dataSource") = Get(q.data, "dataSource")

\* Both calls of a request resolved, the user call with a user object, the
\* normalisation threw and the record returned is the mock one; the other
\* request returned a record marked "GitHub API".
C15_Witness ==
    \E r, p \in ReqIds :
        /\ IsSynthesized(reqs[r])
        /\ HasOutcome(reqs[r], "githubUser", "ok")
        /\ HasOutcome(reqs[r], "githubRepos", "ok")
        /\ IsObj(reqs[r].userData)
        /\ Get(reqs[r].userData, "followers") # Get(reqs[r].data, "followers")
        /\ IsNormalized(reqs[p])

----------------------------------------------------------------------------
(* C16 *)

\* The listing normalised, in upstream order.
ReposIn == fnIn.repos[2]

\* C16: topRepos of a normalised listing holds the first five repositories
\* of the listing in descending order of stargazers_count, ties in upstream
\* order: it has min(5, n) entries, each made of the fields of one
\* repository of the listing taken once, each with at least as many stars
\* as the next, equal neighbours in upstream order, and every omitted
\* repository has no more stars than the last one kept (and comes later
\* upstream when equal).
C16_TopReposSortedTruncated ==
    NormalizedGithub
    => LET top == Get(fnOut, "topRepos")[2]
           Pos(i) == CHOOSE m \in 1..Len(ReposIn) :
                         Get(ReposIn[m], "name") = Get(top[i], "name")
           kept == {Pos(i) : i \in 1..Len(top)}
           Stars(i) == Get(top[i], "stars")[2]
       IN /\ Len(top) = Min(5, Len(ReposIn))
          /\ \A i \in 1..Len(top) :
                 /\ \E m \in 1..Len(ReposIn) :
                        Get(ReposIn[m], "name") = Get(top[i], "name")
                 /\ Keys(top[i]) = RepoFields
                 /\ Get(top[i], "stars") = Get(ReposIn[Pos(i)], "stargazers_count")
                 /\ Get(top[i], "forks") = Get(ReposIn[Pos(i)], "forks_count")
                 /\ Get(top[i], "url") = Get(ReposIn[Pos(i)], "html_url")
                 /\ Get(top[i], "language") = Get(ReposIn[Pos(i)], "language")
                 /\ Get(top[i], "description") = Get(ReposIn[Pos(i)], "description")
                 /\ Get(top[i], "updatedAt") = Get(ReposIn[Pos(i)], "updated_at")
          /\ Cardinality(kept) = Len(top)
          /\ \A i \in 1..(Len(top) - 1) :
                 \/ Stars(i) > Stars(i + 1)
                 \/ Stars(i) = Stars(i + 1) /\ Pos(i) < Pos(i + 1)
          /\ \A m \in (1..Len(ReposIn)) \ kept :
                 \/ StarsIn[m] < Stars(Len(top))
                 \/ StarsIn[m] = Stars(Len(top)) /\ m > Pos(Len(top))

\* Six repositories were listed, the most starred one last; it is kept
\* first, and the omitted repository ties with the last one kept.
C16_Witness ==
    /\ NormalizedGithub
    /\ Len(ReposIn) = 6
    /\ Len(Get(fnOut, "topRepos")[2]) = 5
    /\ Get(Get(fnOut, "topRepos")[2][1], "name") = Get(ReposIn[6], "name")
    /\ \E m \in 1..5 :
           /\ \A i \in 1..5 :
                  Get(Get(fnOut, "topRepos")[2][i], "name") # Get(ReposIn[m], "name")
           /\ StarsIn[m] = Get(Get(fnOut, "topRepos")[2][5], "stars")[2]

----------------------------------------------------------------------------
(* C17 *)

\* language of each repository of the listing normalised, in upstream order.
LanguagesIn == [i \in 1..Len(ReposIn) |-> Get(ReposIn[i], "language")]

\* The repositories of the listing whose language is lang.
ReposOf(lang) == {i \in 1..Len(ReposIn) : LanguagesIn[i] = lang}

\* The place of the first repository of the listing whose language is lang.
FirstOf(lang) == CHOOSE i \in ReposOf(lang) : \A j \in ReposOf(lang) : i <= j

\* C17: languages of a normalised listing holds one {name, count} entry per
\* distinct non-null language of the whole listing, count being the number
\* of repositories of the listing with that language, in descending order
\* of count, ties in order of first appearance, cut to the first five: no
\* entry is named null, no language has two entries, and a language left
\* out has no larger count than the last one kept (and appears later when
\* equal).
C17_LanguageHistogram ==
    NormalizedGithub
    => LET langs == Get(fnOut, "languages")[2]
           distinct == {LanguagesIn[i] : i \in 1..Len(ReposIn)} \ {Null}
           kept == {Get(langs[i], "name") : i \in 1..Len(langs)}
           CountAt(i) == Get(langs[i], "count")[2]
           NameAt(i) == Get(langs[i], "name")
       IN /\ Len(langs) = Min(5, Cardinality(distinct))
          /\ Cardinality(kept) = Len(langs)
          /\ kept \subseteq distinct
          /\ \A i \in 1..Len(langs) :
                 /\ Keys(langs[i]) = LanguageFields
                 /\ Get(langs[i], "count") = Num(Cardinality(ReposOf(NameAt(i))))
          /\ \A i \in 1..(Len(langs) - 1) :
                 \/ CountAt(i) > CountAt(i + 1)
                 \/ /\ CountAt(i) = CountAt(i + 1)
                    /\ FirstOf(NameAt(i)) < FirstOf(NameAt(i + 1))
          /\ \A lang \in distinct \ kept :
                 \/ Cardinality(ReposOf(lang)) < CountAt(Len(langs))
                 \/ /\ Cardinality(ReposOf(lang)) = CountAt(Len(langs))
                    /\ FirstOf(lang) > FirstOf(NameAt(Len(langs)))

\* The listing has a repository without a language, a language counted twice that is not
\* the first to appear, and a language whose only repository is left out
\* of topRepos.
C17_Witness ==
    /\ NormalizedGithub
    /\ \E i \in 1..Len(ReposIn) : LanguagesIn[i] = Null
    /\ Len(Get(fnOut, "languages")[2]) >= 2
    /\ Get(Get(fnOut, "languages")[2][1], "count") = Num(2)
    /\ FirstOf(Get(Get(fnOut, "languages")[2][1], "name")) > 1
    /\ LanguagesIn[1] # Null
    /\ \E lang \in {Get(Get(fnOut, "languages")[2][i], "name") :
                        i \in 1..Len(Get(fnOut, "languages")[2])} :
           \A i \in ReposOf(lang) :
               \A j \in 1..Len(Get(fnOut, "topRepos")[2]) :
                   Get(Get(fnOut, "topRepos")[2][j], "name") # Get(ReposIn[i], "name")

\* Six languages were listed and the sixth to appear is left out.
C17_WitnessTruncated ==
    /\ NormalizedGithub
    /\ Cardinality({LanguagesIn[i] : i \in 1..Len(ReposIn)} \ {Null}) > 5
    /\ Len(Get(fnOut, "languages")[2]) = 5

----------------------------------------------------------------------------
(* C18 *)

\* The username stored for q's user under q's platform.
StoredName(q) ==
    LET ps == Get(Profiles(q.userId), "platforms")[2]
        i == CHOOSE j \in 1..Len(ps) : Get(ps[j], "name") = Str(<<PlatformOf(q)>>)
    IN Get(ps[i], "username")[2]

\* The stored value binds the username u: it is u itself, or, for GitHub,
\* something ending in "github.com/" followed by u and at most one slash.
BindsTo(q, u) ==
    LET stored == StoredName(q)
        n == Len(stored)
        g == Len(GithubCom)
    IN \/ stored = u
       \/ /\ IsGithub(q)
          /\ \E k \in g..n :
                 /\ SubSeq(stored, k - g + 1, k) = GithubCom
                 /\ SubSeq(stored, k + 1, n) \in {u, u \o <<"/">>}
                 /\ \A i \in 1..Len(u) : u[i] # "/"

\* How the calls of q to GitHub or LeetCode ended, in order.
UpstreamOutcomes(q) ==
    SelectSeq(q.outcomes, LAMBDA o : o[1] \in UpstreamEndpoints)

\* q and o met the same upstream: the same calls ended the same way with
\* the same bodies, and a record either built is stamped with the same day.
SameUpstream(q, o) ==
    /\ UpstreamOutcomes(q) = UpstreamOutcomes(o)
    /\ UpstreamOutcomes(q) # <<>>
    /\ q.userData = o.userData
    /\ q.reposData = o.reposData
    /\ q.data # Undefined /\ o.data # Undefined /\ IsGithub(q)
       => Get(q.data, "lastUpdated") = Get(o.data, "lastUpdated")

\* C18: an authenticated GET /stats for a user whose stored binding for the
\* platform is the username u (for GitHub, possibly as a profile URL ending
\* in u with at most one trailing slash) and a GET /stats/u of the same
\* platform that met the same upstream outcomes have sent the same status
\* and the same body.
C18_LookupModesAgree ==
    \A r, p \in ReqIds :
        LET q == reqs[r]
            o == reqs[p]
        IN /\ q.handler \in {"githubProfile", "leetcodeProfile"}
           /\ o.handler \in {"githubUsername", "leetcodeUsername"}
           /\ PlatformOf(q) = PlatformOf(o)
           /\ IsDone(q) /\ IsDone(o)
           /\ SameUpstream(q, o)
           /\ ~NoBinding(q)
           /\ BindsTo(q, o.username)
           => /\ q.status = o.status
              /\ q.body = o.body

\* The user's GitHub binding is a profile URL with a trailing slash; the
\* authenticated request and a request for the username in it both lost
\* the user call on the same day and both were answered.
C18_Witness ==
    \E r, p \in ReqIds :
        /\ reqs[r].handler = "githubProfile" /\ reqs[p].handler = "githubUsername"
        /\ IsDone(reqs[r]) /\ IsDone(reqs[p])
        /\ ~NoBinding(reqs[r])
        /\ StoredName(reqs[r]) # reqs[p].username
        /\ BindsTo(reqs[r], reqs[p].username)
        /\ SameUpstream(reqs[r], reqs[p])
        /\ Rejected(reqs[r], "githubUser")
        /\ reqs[p].status = 200

\* A LeetCode binding and a request for its username got the same GraphQL
\* answer and both were answered with a record.
C18_WitnessLeetcode ==
    \E r, p \in ReqIds :
        /\ reqs[r].handler = "leetcodeProfile" /\ reqs[p].handler = "leetcodeUsername"
        /\ IsDone(reqs[r]) /\ IsDone(reqs[p])
        /\ ~NoBinding(reqs[r])
        /\ BindsTo(reqs[r], reqs[p].username)
        /\ SameUpstream(reqs[r], reqs[p])
        /\ reqs[p].data # Undefined

----------------------------------------------------------------------------
(* C19 *)

\* The places of the calls of q to endpoint in the order q issued its calls.
CallsTo(q, endpoint) == {i \in 1..Len(q.calls) : q.calls[i] = endpoint}

\* C19: a GitHub request issues the repos call at most once and only when
\* its user call, issued before, has resolved; while the user call is
\* pending no repos call is out; and when the user call is rejected the
\* repos call is never issued: the request is answered at once, with the
\* mock record.
C19_GithubCallOrdering ==
    \A r \in ReqIds :
        LET q == reqs[r]
        IN IsGithub(q)
           => /\ Cardinality(CallsTo(q, "githubUser")) <= 1
              /\ Cardinality(CallsTo(q, "githubRepos")) <= 1
              /\ CallsTo(q, "githubRepos") # {}
                 => /\ HasOutcome(q, "githubUser", "ok")
                    /\ \A i \in CallsTo(q, "githubUser"), j \in CallsTo(q, "githubRepos") :
                           i < j
                    /\ CallsTo(q, "githubUser") # {}
              /\ q.pc = "awaitUser" => CallsTo(q, "githubRepos") = {}
              /\ q.pc = "awaitRepos"
                 => CallsTo(q, "githubRepos") # {} /\ ~Rejected(q, "githubUser")
              /\ Rejected(q, "githubUser")
                 => /\ CallsTo(q, "githubRepos") = {}
                    /\ IsDone(q) /\ IsSynthesized(q)
                    /\ q.status = 200
                    /\ q.outcomes[Len(q.outcomes)][1] \in {"githubUser", "forward"}

\* One request lost its user call and was answered with the mock record
\* while the other, whose user call resolved, has its repos call out.
C19_Witness ==
    \E r, p \in ReqIds :
        /\ IsGithub(reqs[r]) /\ Rejected(reqs[r], "githubUser")
        /\ IsDone(reqs[r])
        /\ reqs[p].pc = "awaitRepos"
        /\ CallsTo(reqs[p], "githubRepos") # {}

----------------------------------------------------------------------------
(* C20 *)

SynthesizedGithub == fnIn.fn = "githubSynthesize" /\ fnOut # Undefined

\* The sum of the character codes of a username of "a", "d" and "z".
CodeSum(username) ==
    97 * Cardinality({i \in 1..Len(username) : username[i] = "a"})
    + 100 * Cardinality({i \in 1..Len(username) : username[i] = "d"})
    + 122 * Cardinality({i \in 1..Len(username) : username[i] = "z"})

\* The <<min, max>> pairs random is called with in lines 670-716.
RandomRanges ==
    {<<3, 6>>, <<1, 15>>, <<3, 8>>, <<1, 99>>, <<0, 150>>, <<0, 50>>, <<1, 90>>,
     <<0, 1>>, <<0, 4>>, <<10, 500>>, <<20, 200>>, <<5, 50>>, <<0, 20>>,
     <<0, 2>>, <<0, 3>>, <<0, 5>>}

\* C20: for every username the seed is the sum of its character codes and
\* random(min, max) lies in min..max for every range the mock record draws
\* from, so in the record built followers is in 10..500, following in
\* 20..200, publicRepos in 5..50, publicGists in 0..20, the stars of each
\* repository in 0..150 and its forks in 0..50, languages has 3 to 6
\* entries and topRepos 3 to 8, and the index each repository takes its
\* language at is an index of languages, whose name the repository bears.
C20_SynthesizedBounded ==
    SynthesizedGithub
    => LET sd == seed(fnIn.username)
           langs == Get(fnOut, "languages")[2]
           repos == Get(fnOut, "topRepos")[2]
           InRange(field, min, max) ==
               /\ Get(fnOut, field)[1] = "num"
               /\ Get(fnOut, field)[2] \in min..max
       IN /\ sd = CodeSum(fnIn.username)
          /\ \A range \in RandomRanges :
                 random(sd, range[1], range[2]) \in range[1]..range[2]
          /\ InRange("followers", 10, 500)
          /\ InRange("following", 20, 200)
          /\ InRange("publicRepos", 5, 50)
          /\ InRange("publicGists", 0, 20)
          /\ Len(langs) \in 3..6
          /\ Len(repos) \in 3..8
          /\ random(sd, 0, Len(langs) - 1) + 1 \in 1..Len(langs)
          /\ \A i \in 1..Len(repos) :
                 /\ Get(repos[i], "stars")[2] \in 0..150
                 /\ Get(repos[i], "forks")[2] \in 0..50
                 /\ Get(repos[i], "language")
                    = Get(langs[random(sd, 0, Len(langs) - 1) + 1], "name")

\* A mock record was built for a username whose character codes sum to
\* more than 1000: the seed wraps and the lists are the shortest.
C20_Witness ==
    /\ SynthesizedGithub
    /\ seed(fnIn.username) > 1000
    /\ Len(Get(fnOut, "languages")[2]) = 3
    /\ Len(Get(fnOut, "topRepos")[2]) = 3

\* A mock record was built with the longest lists, more than 490
\* followers and repositories that bear the last language of the list.
C20_WitnessHigh ==
    /\ SynthesizedGithub
    /\ Len(Get(fnOut, "languages")[2]) = 6
    /\ Len(Get(fnOut, "topRepos")[2]) = 8
    /\ Get(fnOut, "followers")[2] > 490
    /\ Get(Get(fnOut, "topRepos")[2][1], "language")
       = Get(Get(fnOut, "languages")[2][6], "name")

----------------------------------------------------------------------------
(* C21 *)

\* The stars of the entries of topRepos of a record, in order.
TopStars(record) ==
    [i \in 1..Len(Get(record, "topRepos")[2]) |->
        Get(Get(record, "topRepos")[2][i], "stars")[2]]

\* C21: in every success response of GET /api/github/stats/:username,
\* built from the upstream answers or synthesized, topRepos and languages
\* hold at most 5 entries each and totalStars is at least the sum of the
\* stars of the entries of topRepos.
C21_ListSizesAndStarTotal ==
    \A r \in ReqIds :
        LET q == reqs[r]
            sent == Get(q.body, "data")
        IN q.handler = "githubUsername" /\ IsDone(q) /\ AnsweredSuccess(q)
           => /\ Len(Get(sent, "topRepos")[2]) <= 5
              /\ Len(Get(sent, "languages")[2]) <= 5
              /\ Get(sent, "totalStars")[2] >= SumSeq(TopStars(sent))

=============================================================================
